---- MODULE Spec2Model ----
(***************************************************************************)
(* Model of the modal navigation-and-editing state machine of              *)
(* nu_plugin_explore: the App state, the key dispatcher transition_state   *)
(* and the main loop run of src/src/app.rs.  The navigation engine, the    *)
(* scalar editor, the cell-path addressing and the default keybindings     *)
(* live in modules that app.rs only calls; they are modelled from the      *)
(* specification document.                                                 *)
(***************************************************************************)
EXTENDS Integers, Sequences, FiniteSets, TLC

(***************************************************************************)
(* Bounds of the model.                                                    *)
(***************************************************************************)
\* number of characters a session may type into the editor
MaxTyped == 1

(***************************************************************************)
(* Values: the tagged union nu_protocol::Value, in one record shape.       *)
(* Strings are sequences of characters; record keys are TLA+ strings.      *)
(***************************************************************************)
VNothing == [type |-> "nothing", int |-> 0, str |-> <<>>, cols |-> <<>>, vals |-> <<>>, path |-> <<>>]

VInt(n) == [type |-> "int", int |-> n, str |-> <<>>, cols |-> <<>>, vals |-> <<>>, path |-> <<>>]

VString(s) == [type |-> "string", int |-> 0, str |-> s, cols |-> <<>>, vals |-> <<>>, path |-> <<>>]

VList(vals) == [type |-> "list", int |-> 0, str |-> <<>>, cols |-> <<>>, vals |-> vals, path |-> <<>>]

VRecord(cols, vals) == [type |-> "record", int |-> 0, str |-> <<>>, cols |-> cols, vals |-> vals, path |-> <<>>]

\* Value::cell_path(cell_path, span): a cell-path as data
VCellPath(members) == [type |-> "cellpath", int |-> 0, str |-> <<>>, cols |-> <<>>, vals |-> <<>>, path |-> members]

\* the value that stands for a failed resolution (Err(ShellError))
VError == [type |-> "error", int |-> 0, str |-> <<>>, cols |-> <<>>, vals |-> <<>>, path |-> <<>>]

IsContainer(v) == v.type \in {"list", "record"}

\* a scalar, or a list/record without children
IsLeaf(v) == ~IsContainer(v) \/ Len(v.vals) = 0

(***************************************************************************)
(* Path members: PathMember::Int {val, optional} and                       *)
(* PathMember::String {val, optional}, in one record shape.                *)
(***************************************************************************)
PMInt(i, optional) == [kind |-> "Int", ival |-> i, sval |-> "", optional |-> optional]

PMString(s, optional) == [kind |-> "String", ival |-> 0, sval |-> s, optional |-> optional]

Front(s) == IF Len(s) = 0 THEN s ELSE SubSeq(s, 1, Len(s) - 1)

\* position (1-based) of key k among cols, 0 when absent
RECURSIVE PositionFrom(_, _, _)
PositionFrom(cols, k, i) ==
    IF i > Len(cols) THEN 0
    ELSE IF cols[i] = k THEN i
    ELSE PositionFrom(cols, k, i + 1)

Position(cols, k) == PositionFrom(cols, k, 1)

(***************************************************************************)
(* resolve(tree, path): follows each member from the root.  Index(i)       *)
(* requires a List with i in range, Key(k) a Record containing k; an       *)
(* optional member whose slot is absent yields nothing; anything else is   *)
(* a resolution error.                                                     *)
(***************************************************************************)
RECURSIVE follow_cell_path(_, _)
follow_cell_path(v, members) ==
    IF Len(members) = 0 THEN v
    ELSE LET m == Head(members) IN
         IF m.kind = "Int" /\ v.type = "list"
         THEN IF m.ival < Len(v.vals)
              THEN follow_cell_path(v.vals[m.ival + 1], Tail(members))
              ELSE IF m.optional THEN VNothing ELSE VError
         ELSE IF m.kind = "String" /\ v.type = "record"
         THEN IF Position(v.cols, m.sval) > 0
              THEN follow_cell_path(v.vals[Position(v.cols, m.sval)], Tail(members))
              ELSE IF m.optional THEN VNothing ELSE VError
         ELSE VError

(***************************************************************************)
(* mutate(tree, path, new_value): the tree with the node at path replaced; *)
(* the path must resolve, a path that does not leaves the tree as it is.   *)
(***************************************************************************)
RECURSIVE mutate_value_cell(_, _, _)
mutate_value_cell(v, members, new) ==
    IF Len(members) = 0 THEN new
    ELSE LET m == Head(members) IN
         IF m.kind = "Int" /\ v.type = "list" /\ m.ival < Len(v.vals)
         THEN [v EXCEPT !.vals[m.ival + 1] = mutate_value_cell(@, Tail(members), new)]
         ELSE IF m.kind = "String" /\ v.type = "record" /\ Position(v.cols, m.sval) > 0
         THEN [v EXCEPT !.vals[Position(v.cols, m.sval)] = mutate_value_cell(@, Tail(members), new)]
         ELSE v

(***************************************************************************)
(* Keys and the keybinding table.  Every action is bound to its own chord. *)
(***************************************************************************)
keybindings ==
    [quit |-> "q", insert |-> "i", normal |-> "Escape", peek |-> "p",
     navigation |-> [up |-> "k", down |-> "j", left |-> "h", right |-> "l"],
     peeking |-> [all |-> "a", view |-> "v", under |-> "u", cell_path |-> "c"]]

\* keys that are not a character
SpecialKeys == {"Escape", "Enter", "Backspace", "Del", "ArrowLeft", "ArrowRight", "Home", "End"}

\* the keys a session reads: every bound chord, the editing keys, a free character
Keys == {"q", "i", "p", "k", "j", "h", "l", "a", "v", "u", "c", "x"} \cup SpecialKeys

\* the keys a session reads while the editor is open
EditKeys == {"q", "x", "Escape", "Enter", "Backspace", "ArrowLeft"}

IsChar(key) == key \notin SpecialKeys

(***************************************************************************)
(* Modes and transition results.                                           *)
(***************************************************************************)
Mode == {"Normal", "Insert", "Peeking", "Bottom"}

Quit == [kind |-> "Quit", val |-> VNothing, msg |-> ""]

Continue == [kind |-> "Continue", val |-> VNothing, msg |-> ""]

Return(v) == [kind |-> "Return", val |-> v, msg |-> ""]

Edit(v) == [kind |-> "Edit", val |-> v, msg |-> ""]

\* Error("can only edit string cells, found <type>"): msg holds the type
Error(t) == [kind |-> "Error", val |-> VNothing, msg |-> t]

\* Err(ShellError) propagated by `?`
ShellError == [kind |-> "ShellError", val |-> VNothing, msg |-> ""]

\* a panic raised by unwrap()
Panic == [kind |-> "Panic", val |-> VNothing, msg |-> ""]

(***************************************************************************)
(* The scalar editor: a buffer of characters and a cursor.                 *)
(***************************************************************************)
EditorDefault == [buffer |-> <<>>, cursor |-> 0]

\* buffer initialised from the string's characters, cursor at end
EditorFromValue(v) == [buffer |-> v.str, cursor |-> Len(v.str)]

InsertAt(s, i, c) == SubSeq(s, 1, i) \o <<c>> \o SubSeq(s, i + 1, Len(s))

RemoveAt(s, i) == SubSeq(s, 1, i - 1) \o SubSeq(s, i + 1, Len(s))

\* handle_key: ret "None" is Unhandled, "Mode" a mode change without a value,
\* "Commit" a mode change with the edited value
handle_key(editor, key) ==
    LET b == editor.buffer
        c == editor.cursor
        stay(e) == [editor |-> e, ret |-> "None", mode |-> "Insert", val |-> VNothing]
    IN  IF key = "Enter"
        THEN [editor |-> editor, ret |-> "Commit", mode |-> "Normal", val |-> VString(b)]
        ELSE IF key = "Escape"
        THEN [editor |-> editor, ret |-> "Mode", mode |-> "Normal", val |-> VNothing]
        ELSE IF key = "ArrowLeft"
        THEN stay([editor EXCEPT !.cursor = IF c > 0 THEN c - 1 ELSE 0])
        ELSE IF key = "ArrowRight"
        THEN stay([editor EXCEPT !.cursor = IF c < Len(b) THEN c + 1 ELSE Len(b)])
        ELSE IF key = "Home"
        THEN stay([editor EXCEPT !.cursor = 0])
        ELSE IF key = "End"
        THEN stay([editor EXCEPT !.cursor = Len(b)])
        ELSE IF key = "Backspace"
        THEN stay(IF c > 0 THEN [buffer |-> RemoveAt(b, c), cursor |-> c - 1] ELSE editor)
        ELSE IF key = "Del"
        THEN stay(IF c < Len(b) THEN [buffer |-> RemoveAt(b, c + 1), cursor |-> c] ELSE editor)
        ELSE stay([buffer |-> InsertAt(b, c, key), cursor |-> c + 1])

(***************************************************************************)
(* The App: cell_path, mode, editor.                                       *)
(***************************************************************************)
AppDefault == [cell_path |-> <<>>, mode |-> "Normal", editor |-> EditorDefault]

\* from_value that never looks up the first key of a record
from_value_no_key(v) ==
    IF v.type = "list"
    THEN [AppDefault EXCEPT !.cell_path = <<PMInt(0, Len(v.vals) = 0)>>]
    ELSE IF v.type = "record"
    THEN [AppDefault EXCEPT !.cell_path = <<PMString("", Len(v.cols) = 0)>>]
    ELSE AppDefault

\* from_value that marks no member optional
from_value_never_optional(v) ==
    IF v.type = "list"
    THEN [AppDefault EXCEPT !.cell_path = <<PMInt(0, FALSE)>>]
    ELSE IF v.type = "record"
    THEN [AppDefault EXCEPT !.cell_path =
             <<PMString(IF Len(v.cols) > 0 THEN v.cols[1] ELSE "", FALSE)>>]
    ELSE AppDefault

\* from_value that marks the member optional when the container has children
from_value_optional_when_full(v) ==
    IF v.type = "list"
    THEN [AppDefault EXCEPT !.cell_path = <<PMInt(0, Len(v.vals) > 0)>>]
    ELSE IF v.type = "record"
    THEN [AppDefault EXCEPT !.cell_path =
             <<PMString(IF Len(v.cols) > 0 THEN v.cols[1] ELSE "", Len(v.cols) > 0)>>]
    ELSE AppDefault

from_value(v) ==
    IF v.type = "list"
    THEN [AppDefault EXCEPT !.cell_path = <<PMInt(0, Len(v.vals) = 0)>>]
    ELSE IF v.type = "record"
    THEN [AppDefault EXCEPT !.cell_path =
             <<PMString(IF Len(v.cols) > 0 THEN v.cols[1] ELSE "", Len(v.cols) = 0)>>]
    ELSE AppDefault

is_at_bottom(a) == a.mode = "Bottom"

\* hit_bottom that leaves the mode as it was
hit_bottom_stays(a) == a

hit_bottom(a) == [a EXCEPT !.mode = "Bottom"]

\* enter_editor that keeps the editor of the session before
enter_editor_keeps(a, v) == [a EXCEPT !.mode = "Insert"]

enter_editor(a, v) == [a EXCEPT !.mode = "Insert", !.editor = EditorFromValue(v)]

(***************************************************************************)
(* The navigation engine.                                                  *)
(***************************************************************************)
\* the selector of the child at position i (1-based) of container v
Selector(v, i) == IF v.type = "list" THEN PMInt(i - 1, FALSE) ELSE PMString(v.cols[i], FALSE)

\* position (1-based) of member m among the children of v, 0 when it selects none
SiblingPosition(v, m) ==
    IF v.type = "list" /\ m.kind = "Int" /\ m.ival < Len(v.vals) THEN m.ival + 1
    ELSE IF v.type = "record" /\ m.kind = "String" THEN Position(v.cols, m.sval)
    ELSE 0

\* sibling cycle: direction is -1 (up) or 1 (down)
go_up_or_down_in_data(a, value, direction) ==
    IF is_at_bottom(a) \/ Len(a.cell_path) = 0 THEN a
    ELSE LET parent == follow_cell_path(value, Front(a.cell_path))
             n == Len(parent.vals)
             pos == SiblingPosition(parent, a.cell_path[Len(a.cell_path)])
         IN  IF ~IsContainer(parent) \/ n <= 1 \/ pos = 0 THEN a
             ELSE [a EXCEPT !.cell_path =
                      Front(a.cell_path) \o <<Selector(parent, ((pos - 1 + direction + n) % n) + 1)>>]

\* the last member is a placeholder chosen in an empty container
OnPlaceholder(a) == Len(a.cell_path) > 0 /\ a.cell_path[Len(a.cell_path)].optional

\* descend; a placeholder is not resolved: its container is empty, which is a bottom
go_deeper_in_data(a, value) ==
    IF is_at_bottom(a) THEN a
    ELSE IF OnPlaceholder(a) THEN hit_bottom(a)
    ELSE LET node == follow_cell_path(value, a.cell_path)
         IN  IF IsLeaf(node) THEN hit_bottom(a)
             ELSE [a EXCEPT !.cell_path = a.cell_path \o <<Selector(node, 1)>>]

\* ascend
go_back_in_data(a) ==
    IF is_at_bottom(a) THEN [a EXCEPT !.mode = "Normal"]
    ELSE IF Len(a.cell_path) > 1 THEN [a EXCEPT !.cell_path = Front(a.cell_path)]
    ELSE a

\* the cell-paths the navigation engine resolves for direction key k
navigation_resolves(k, a) ==
    IF a.mode # "Normal" THEN {}
    ELSE IF k \in {keybindings.navigation.up, keybindings.navigation.down}
    THEN IF Len(a.cell_path) = 0 THEN {} ELSE {Front(a.cell_path)}
    ELSE IF k = keybindings.navigation.right
    THEN IF OnPlaceholder(a) THEN {} ELSE {a.cell_path}
    ELSE {}

(***************************************************************************)
(* transition_state: the key dispatcher.  Each rule yields either a        *)
(* returned result (ret) or falls through to the rules after it.           *)
(***************************************************************************)
Done(a, r) == [ret |-> TRUE, app |-> a, result |-> r]

Fall(a) == [ret |-> FALSE, app |-> a, result |-> Continue]

\* on_quit with the mode test lost: the quit key quits in every mode
on_quit_always(a) == Done(a, Quit)

\* on_quit that quits from Normal mode only
on_quit_normal_only(a) == IF a.mode = "Normal" THEN Done(a, Quit) ELSE Fall(a)

\* key == quit
on_quit(a) == IF a.mode # "Insert" THEN Done(a, Quit) ELSE Fall(a)

\* on_insert with the editor opened before the type is looked at
on_insert_any(a, value) ==
    IF a.mode = "Normal"
    THEN LET v == follow_cell_path(value, a.cell_path)
         IN  IF v = VError THEN Done(a, Panic)
             ELSE IF v.type = "string" THEN Done(enter_editor(a, v), Continue)
             ELSE Done(enter_editor(a, v), Error(v.type))
    ELSE Fall(a)

\* on_insert that takes Bottom for Normal
on_insert_from_bottom(a, value) ==
    IF a.mode \in {"Normal", "Bottom"}
    THEN LET v == follow_cell_path(value, a.cell_path)
         IN  IF v = VError THEN Done(a, Panic)
             ELSE IF v.type = "string" THEN Done(enter_editor(a, v), Continue)
             ELSE Done(a, Error(v.type))
    ELSE Fall(a)

\* on_insert that opens the editor on every scalar cell
on_insert_scalars(a, value) ==
    IF a.mode = "Normal"
    THEN LET v == follow_cell_path(value, a.cell_path)
         IN  IF v = VError THEN Done(a, Panic)
             ELSE IF IsLeaf(v) THEN Done(enter_editor(a, v), Continue)
             ELSE Done(a, Error(v.type))
    ELSE Fall(a)

\* key == insert
on_insert(a, value) ==
    IF a.mode = "Normal"
    THEN LET v == follow_cell_path(value, a.cell_path)
         IN  IF v = VError THEN Done(a, Panic)
             ELSE IF v.type = "string" THEN Done(enter_editor(a, v), Continue)
             ELSE Done(a, Error(v.type))
    ELSE Fall(a)

\* on_normal that keeps the edit instead of discarding it
on_normal_commits(a) ==
    IF a.mode = "Insert"
    THEN Done([a EXCEPT !.mode = "Normal"], Edit(VString(a.editor.buffer)))
    ELSE Fall(a)

\* on_normal that returns to Normal from every mode
on_normal_any_mode(a) == Done([a EXCEPT !.mode = "Normal"], Continue)

\* key == normal
on_normal(a) == IF a.mode = "Insert" THEN Done([a EXCEPT !.mode = "Normal"], Continue) ELSE Fall(a)

\* on_down moving in the direction of up
on_down_reversed(a, value) ==
    IF a.mode = "Normal" THEN Done(go_up_or_down_in_data(a, value, -1), Continue) ELSE Fall(a)

\* key == navigation.down
on_down(a, value) ==
    IF a.mode = "Normal" THEN Done(go_up_or_down_in_data(a, value, 1), Continue) ELSE Fall(a)

\* key == navigation.up
on_up(a, value) ==
    IF a.mode = "Normal" THEN Done(go_up_or_down_in_data(a, value, -1), Continue) ELSE Fall(a)

\* on_right that enters Bottom without looking at the node
on_right_always_bottom(a, value) ==
    IF a.mode = "Normal" THEN Done(hit_bottom(a), Continue) ELSE Fall(a)

\* key == navigation.right
on_right(a, value) ==
    IF a.mode = "Normal" THEN Done(go_deeper_in_data(a, value), Continue) ELSE Fall(a)

\* on_left that also ascends when it leaves Bottom
on_left_pops(a) ==
    IF a.mode = "Normal" THEN Done(go_back_in_data(a), Continue)
    ELSE IF is_at_bottom(a)
    THEN Done([a EXCEPT !.mode = "Normal", !.cell_path = Front(a.cell_path)], Continue)
    ELSE Fall(a)

\* on_left without the Bottom branch
on_left_normal_only(a) ==
    IF a.mode = "Normal" THEN Done(go_back_in_data(a), Continue) ELSE Fall(a)

\* on_left that pops whatever the depth
on_left_past_root(a) ==
    IF a.mode = "Normal" THEN Done([a EXCEPT !.cell_path = Front(a.cell_path)], Continue)
    ELSE IF is_at_bottom(a) THEN Done([a EXCEPT !.mode = "Normal"], Continue)
    ELSE Fall(a)

\* key == navigation.left
on_left(a) ==
    IF a.mode = "Normal" THEN Done(go_back_in_data(a), Continue)
    ELSE IF is_at_bottom(a) THEN Done([a EXCEPT !.mode = "Normal"], Continue)
    ELSE Fall(a)

\* on_peek with Bottom treated like Normal
on_peek_bottom_peeks(a, value) ==
    IF a.mode = "Normal" \/ is_at_bottom(a) THEN Done([a EXCEPT !.mode = "Peeking"], Continue)
    ELSE Fall(a)

\* key == peek
on_peek(a, value) ==
    IF a.mode = "Normal" THEN Done([a EXCEPT !.mode = "Peeking"], Continue)
    ELSE IF is_at_bottom(a)
    THEN LET v == follow_cell_path(value, a.cell_path)
         IN  IF v = VError THEN Done(a, ShellError) ELSE Done(a, Return(v))
    ELSE Fall(a)

\* on_peeking with `all` returning the selected node instead of the root
on_peeking_all_selected(key, a, value) ==
    IF key = keybindings.normal THEN Done([a EXCEPT !.mode = "Normal"], Continue)
    ELSE IF key \in {keybindings.peeking.all, keybindings.peeking.under}
    THEN LET v == follow_cell_path(value, a.cell_path)
         IN  IF v = VError THEN Done(a, ShellError) ELSE Done(a, Return(v))
    ELSE IF key = keybindings.peeking.view
    THEN LET popped == [a EXCEPT !.cell_path = Front(a.cell_path)]
             v == follow_cell_path(value, popped.cell_path)
         IN  IF v = VError THEN Done(popped, ShellError) ELSE Done(popped, Return(v))
    ELSE IF key = keybindings.peeking.cell_path THEN Done(a, Return(VCellPath(a.cell_path)))
    ELSE Fall(a)

\* on_peeking with `under` popping the last member like `view`
on_peeking_under_pops(key, a, value) ==
    IF key = keybindings.normal THEN Done([a EXCEPT !.mode = "Normal"], Continue)
    ELSE IF key = keybindings.peeking.all THEN Done(a, Return(value))
    ELSE IF key \in {keybindings.peeking.view, keybindings.peeking.under}
    THEN LET popped == [a EXCEPT !.cell_path = Front(a.cell_path)]
             v == follow_cell_path(value, popped.cell_path)
         IN  IF v = VError THEN Done(popped, ShellError) ELSE Done(popped, Return(v))
    ELSE IF key = keybindings.peeking.cell_path THEN Done(a, Return(VCellPath(a.cell_path)))
    ELSE Fall(a)

\* on_peeking with `view` resolving the path before the pop
on_peeking_view_stale(key, a, value) ==
    IF key = keybindings.normal THEN Done([a EXCEPT !.mode = "Normal"], Continue)
    ELSE IF key = keybindings.peeking.all THEN Done(a, Return(value))
    ELSE IF key = keybindings.peeking.view
    THEN LET popped == [a EXCEPT !.cell_path = Front(a.cell_path)]
             v == follow_cell_path(value, a.cell_path)
         IN  IF v = VError THEN Done(popped, ShellError) ELSE Done(popped, Return(v))
    ELSE IF key = keybindings.peeking.under
    THEN LET v == follow_cell_path(value, a.cell_path)
         IN  IF v = VError THEN Done(a, ShellError) ELSE Done(a, Return(v))
    ELSE IF key = keybindings.peeking.cell_path THEN Done(a, Return(VCellPath(a.cell_path)))
    ELSE Fall(a)

\* app.mode == Peeking
on_peeking(key, a, value) ==
    IF key = keybindings.normal THEN Done([a EXCEPT !.mode = "Normal"], Continue)
    ELSE IF key = keybindings.peeking.all THEN Done(a, Return(value))
    ELSE IF key = keybindings.peeking.view
    THEN LET popped == [a EXCEPT !.cell_path = Front(a.cell_path)]
             v == follow_cell_path(value, popped.cell_path)
         IN  IF v = VError THEN Done(popped, ShellError) ELSE Done(popped, Return(v))
    ELSE IF key = keybindings.peeking.under
    THEN LET v == follow_cell_path(value, a.cell_path)
         IN  IF v = VError THEN Done(a, ShellError) ELSE Done(a, Return(v))
    ELSE IF key = keybindings.peeking.cell_path THEN Done(a, Return(VCellPath(a.cell_path)))
    ELSE Fall(a)

\* app.mode == Insert: the key goes to the editor
on_editor(key, a) ==
    LET h == handle_key(a.editor, key)
        edited == [a EXCEPT !.editor = h.editor]
    IN  IF h.ret = "None" THEN Done(edited, Continue)
        ELSE IF h.ret = "Commit" THEN Done([edited EXCEPT !.mode = h.mode], Edit(h.val))
        ELSE Done([edited EXCEPT !.mode = h.mode], Continue)

transition_state(key, a, value) ==
    LET first ==
            IF key = keybindings.quit THEN on_quit(a)
            ELSE IF key = keybindings.insert THEN on_insert(a, value)
            ELSE IF key = keybindings.normal THEN on_normal(a)
            ELSE IF key = keybindings.navigation.down THEN on_down(a, value)
            ELSE IF key = keybindings.navigation.up THEN on_up(a, value)
            ELSE IF key = keybindings.navigation.right THEN on_right(a, value)
            ELSE IF key = keybindings.navigation.left THEN on_left(a)
            ELSE IF key = keybindings.peek THEN on_peek(a, value)
            ELSE Fall(a)
        second == IF a.mode = "Peeking" THEN on_peeking(key, a, value) ELSE Fall(a)
        third == IF a.mode = "Insert" THEN on_editor(key, a) ELSE Fall(a)
    IN  IF first.ret THEN first
        ELSE IF second.ret THEN second
        ELSE IF third.ret THEN third
        ELSE Done(a, Continue)

(***************************************************************************)
(* The trees a session may start from.                                     *)
(***************************************************************************)
\* {l: ["m", 2, 3], r: {a: 1, b: 2}, s: 5, i: 123}
Fixture ==
    VRecord(<<"l", "r", "s", "i">>,
            <<VList(<<VString(<<"m">>), VInt(2), VInt(3)>>),
              VRecord(<<"a", "b">>, <<VInt(1), VInt(2)>>),
              VInt(5),
              VInt(123)>>)

\* {o: [[]], e: {}, n: [{k: "v"}]}: single-child and empty containers
Nested ==
    VRecord(<<"o", "e", "n">>,
            <<VList(<<VList(<<>>)>>),
              VRecord(<<>>, <<>>),
              VList(<<VRecord(<<"k">>, <<VString(<<"v">>)>>)>>)>>)

Inputs ==
    {Fixture, Nested, VList(<<>>), VRecord(<<>>, <<>>), VString(<<"s">>), VInt(7), VNothing}

(***************************************************************************)
(* run: the main loop.                                                     *)
(***************************************************************************)
VARIABLES
    input,      \* the tree the session was started on
    value,      \* the current tree
    app,        \* the App
    prev_mode,  \* the mode the last key was read in
    result,     \* the result of the last transition
    pc,         \* "loop": waiting for a key; "error": showing an error, waiting
                \* for the key that dismisses it; "done": run returned Ok;
                \* "failed": run returned Err or panicked
    output,     \* the value run returned
    typed       \* characters typed so far

vars == <<input, value, app, prev_mode, result, pc, output, typed>>

Init ==
    /\ input \in Inputs
    /\ value = input
    /\ app = from_value(input)
    /\ prev_mode = "Normal"
    /\ result = Continue
    /\ pc = "loop"
    /\ output = VNothing
    /\ typed = 0

\* run_value writing the edited value over the parent of the selected cell
run_value_parent(t, v) ==
    IF t.result.kind = "Edit"
    THEN mutate_value_cell(v, Front(t.app.cell_path), t.result.val)
    ELSE v

\* the tree after a transition: TransitionResult::Edit(val) replaces the cell
run_value(t, v) ==
    IF t.result.kind = "Edit" THEN mutate_value_cell(v, t.app.cell_path, t.result.val) ELSE v

\* run_pc with the loop also left after an edit
run_pc_edit_ends(t) ==
    CASE t.result.kind \in {"Quit", "Edit"} -> "done"
      [] t.result.kind = "Return" -> "done"
      [] t.result.kind = "Error" -> "error"
      [] t.result.kind \in {"ShellError", "Panic"} -> "failed"
      [] OTHER -> "loop"

\* where run goes after a transition: Quit breaks, Return returns, Error waits
\* for a key, a failure leaves run with an error, anything else loops
run_pc(t) ==
    CASE t.result.kind = "Quit" -> "done"
      [] t.result.kind = "Return" -> "done"
      [] t.result.kind = "Error" -> "error"
      [] t.result.kind \in {"ShellError", "Panic"} -> "failed"
      [] OTHER -> "loop"

\* what run returns: the value of a Return, nothing after the loop
run_output(t, out) == IF t.result.kind = "Return" THEN t.result.val ELSE out

\* the key is a character that the editor receives
Types(k) == app.mode = "Insert" /\ IsChar(k)

\* one iteration: read a key, compute the transition, apply its result
ReadKey ==
    /\ pc = "loop"
    /\ \E k \in (IF app.mode = "Insert" THEN EditKeys ELSE Keys) :
        /\ Types(k) => typed < MaxTyped
        /\ typed' = IF Types(k) THEN typed + 1 ELSE typed
        /\ LET t == transition_state(k, app, value)
           IN  /\ app' = t.app
               /\ prev_mode' = app.mode
               /\ result' = t.result
               /\ value' = run_value(t, value)
               /\ pc' = run_pc(t)
               /\ output' = run_output(t, output)
    /\ UNCHANGED input

\* DismissError with the key handed to transition_state like any other
DismissError_dispatches ==
    /\ pc = "error"
    /\ \E k \in Keys :
           LET t == transition_state(k, app, value)
           IN  /\ app' = t.app
               /\ prev_mode' = app.mode
               /\ result' = t.result
               /\ value' = run_value(t, value)
               /\ pc' = run_pc(t)
               /\ output' = run_output(t, output)
    /\ UNCHANGED <<input, typed>>

\* the key read after an error is dropped, whichever it is
DismissError ==
    /\ pc = "error"
    /\ pc' = "loop"
    /\ UNCHANGED <<input, value, app, prev_mode, result, output, typed>>

Next == ReadKey \/ DismissError

Spec == Init /\ [][Next]_vars

(***************************************************************************)
(* Properties.                                                             *)
(***************************************************************************)
\* the transition the next key k would make
TS(k) == transition_state(k, app, value)

\* C1: the quit key yields Quit in mode Normal, Peeking or Bottom; in mode
\* Insert it never yields Quit: the editor receives the key and the result
\* is Continue.  A Quit result ends the session, and never from Insert.
C1_QuitKey ==
    /\ pc = "loop" =>
          LET t == TS(keybindings.quit)
          IN  /\ app.mode \in {"Normal", "Peeking", "Bottom"} => t.result = Quit
              /\ app.mode = "Insert" =>
                    /\ t.result = Continue
                    /\ t.app.editor = handle_key(app.editor, keybindings.quit).editor
    /\ result = Quit => pc = "done" /\ prev_mode # "Insert"

\* the quit key was typed into the editor, and later quit the session from Bottom
C1_Witness ==
    /\ pc = "done" /\ result = Quit /\ prev_mode = "Bottom"
    /\ \E i \in 1..Len(app.editor.buffer) : app.editor.buffer[i] = keybindings.quit

\* C2: the insert key in Normal mode opens the editor (mode Insert, result
\* Continue) when the selected node is a String; for any other node the result
\* is Error and app and tree are unchanged, the mode still Normal.
C2_InsertKey ==
    /\ pc = "loop" /\ app.mode = "Normal" =>
          LET v == follow_cell_path(value, app.cell_path)
              t == TS(keybindings.insert)
          IN  IF v.type = "string"
              THEN t.app.mode = "Insert" /\ t.result = Continue
              ELSE /\ t.result.kind = "Error"
                   /\ t.app = app
                   /\ t.app.mode = "Normal"
                   /\ run_value(t, value) = value
    /\ pc = "error" =>
          /\ result.kind = "Error"
          /\ app.mode = "Normal"
          /\ follow_cell_path(value, app.cell_path).type # "string"

\* insert was pressed on a record, after an earlier editing session
C2_Witness ==
    /\ pc = "error"
    /\ result.kind = "Error"
    /\ follow_cell_path(value, app.cell_path).type = "record"
    /\ typed > 0

\* C3: the peek key in Normal mode changes the mode to Peeking with result
\* Continue; in Bottom mode it yields Return(resolve(tree, cell_path)) at once
\* and the mode does not become Peeking.
C3_PeekKey ==
    /\ pc = "loop" =>
          LET t == TS(keybindings.peek)
          IN  /\ app.mode = "Normal" =>
                    t = Done([app EXCEPT !.mode = "Peeking"], Continue)
              /\ app.mode = "Bottom" =>
                    /\ t.result = Return(follow_cell_path(value, app.cell_path))
                    /\ t.app = app
    /\ prev_mode = "Bottom" /\ result.kind = "Return" =>
          /\ app.mode = "Bottom"
          /\ pc = "done"
          /\ output = follow_cell_path(value, app.cell_path)

\* peek on the leaf .l.0 returned its string
C3_Witness ==
    /\ pc = "done"
    /\ prev_mode = "Bottom"
    /\ app.mode = "Bottom"
    /\ result.kind = "Return"
    /\ output.type = "string"
    /\ Len(app.cell_path) = 2

\* C4: in Peeking mode the `all` key yields Return(tree), the whole root, at
\* every cell_path, and leaves mode and cell_path (the whole app) unchanged.
C4_PeekAll ==
    pc = "loop" /\ app.mode = "Peeking" =>
        TS(keybindings.peeking.all) = Done(app, Return(value))

\* `all` returned the whole tree from a selection two levels down
C4_Witness ==
    /\ pc = "done"
    /\ app.mode = "Peeking"
    /\ result = Return(value)
    /\ output = value
    /\ Len(app.cell_path) >= 2

\* C5: peek in Normal mode followed by `under` returns the value cell_path
\* resolved to before Peeking was entered; neither key changes cell_path.
C5_PeekUnder ==
    /\ pc = "loop" /\ app.mode = "Normal" =>
          LET before == follow_cell_path(value, app.cell_path)
              peeked == TS(keybindings.peek)
              t == transition_state(keybindings.peeking.under, peeked.app, value)
          IN  /\ peeked.app.mode = "Peeking"
              /\ peeked.app.cell_path = app.cell_path
              /\ t.result = Return(before)
              /\ t.app.cell_path = app.cell_path
    /\ pc = "loop" /\ app.mode = "Peeking" =>
          TS(keybindings.peeking.under) = Done(app, Return(follow_cell_path(value, app.cell_path)))

\* `under` returned the scalar selected two levels down (`view` returns a container)
C5_Witness ==
    /\ pc = "done"
    /\ app.mode = "Peeking"
    /\ Len(app.cell_path) = 2
    /\ result = Return(follow_cell_path(value, app.cell_path))
    /\ output.type = "int"

\* C6: in Peeking mode the `view` key removes the last member of cell_path and
\* returns the node the shortened path resolves to: the container holding the
\* selection, which is the whole tree when cell_path has depth 1 or 0.
C6_PeekView ==
    pc = "loop" /\ app.mode = "Peeking" =>
        LET t == TS(keybindings.peeking.view)
            n == Len(app.cell_path)
        IN  /\ t.app = [app EXCEPT !.cell_path = Front(app.cell_path)]
            /\ t.result = Return(follow_cell_path(value, Front(app.cell_path)))
            /\ n <= 1 => t.result.val = value
            /\ n >= 1 =>
                  /\ IsContainer(t.result.val)
                  /\ follow_cell_path(t.result.val, <<app.cell_path[n]>>)
                        = follow_cell_path(value, app.cell_path)

\* `view` at depth 1 emptied the path and returned the whole record
C6_Witness ==
    /\ pc = "done"
    /\ app.mode = "Peeking"
    /\ Len(app.cell_path) = 0
    /\ IsContainer(value)
    /\ Len(value.vals) > 0
    /\ output = value

\* the app after pressing key k n times, starting from a
RECURSIVE Repeat(_, _, _, _)
Repeat(k, a, v, n) == IF n = 0 THEN a ELSE Repeat(k, transition_state(k, a, v).app, v, n - 1)

\* C7: the sibling cycle is a closed ring.  In Normal mode, with cell_path
\* selecting one of the n children of a non-empty container: `down` moves to
\* the next sibling and from the last to the first, `up` to the previous one
\* and from the first to the last, `up` undoes `down`, n times `down` returns
\* to the start, and only the last path member changes.
C7_SiblingRing ==
    pc = "loop" /\ app.mode = "Normal" /\ Len(app.cell_path) >= 1 =>
        LET p == app.cell_path
            parent == follow_cell_path(value, Front(p))
            n == Len(parent.vals)
            pos == SiblingPosition(parent, p[Len(p)])
            down == TS(keybindings.navigation.down)
            up == TS(keybindings.navigation.up)
            child(i) == [app EXCEPT !.cell_path = Front(p) \o <<Selector(parent, i)>>]
        IN  IsContainer(parent) /\ n >= 1 /\ pos >= 1 =>
                /\ down = Done(child(IF pos = n THEN 1 ELSE pos + 1), Continue)
                /\ up = Done(child(IF pos = 1 THEN n ELSE pos - 1), Continue)
                /\ Repeat(keybindings.navigation.down, app, value, n) = app
                /\ \A i \in 1..(n - 1) :
                      Repeat(keybindings.navigation.down, app, value, i) # app
                /\ transition_state(keybindings.navigation.up, down.app, value).app = app

\* the selection reached the last of the three elements of .l
C7_Witness ==
    /\ pc = "loop"
    /\ app.mode = "Normal"
    /\ prev_mode = "Normal"
    /\ result = Continue
    /\ app.cell_path = <<PMString("l", FALSE), PMInt(2, FALSE)>>

\* C8: from any Normal-mode position `right` followed by `left` restores the
\* cell_path and leaves the mode Normal, whether `right` descended into a
\* container or hit a scalar or an empty container.
C8_RightLeft ==
    pc = "loop" /\ app.mode = "Normal" =>
        LET r == TS(keybindings.navigation.right)
            l == transition_state(keybindings.navigation.left, r.app, value)
        IN  /\ r.result = Continue
            /\ l.result = Continue
            /\ l.app.cell_path = app.cell_path
            /\ l.app.mode = "Normal"

\* `right` hit the bottom three levels down, through containers of one child,
\* and `left` came back to Normal
C8_Witness ==
    /\ pc = "loop"
    /\ prev_mode = "Bottom"
    /\ app.mode = "Normal"
    /\ Len(app.cell_path) = 3

\* C9: right after `right` in Normal mode the app is at the bottom iff the node
\* cell_path resolved to when the key was pressed is a scalar or an empty
\* list/record; a non-empty list appends Index(0), a non-empty record its first
\* key, both not optional, and the app is not at the bottom.
C9_RightBottom ==
    /\ pc = "loop" /\ app.mode = "Normal" =>
          LET node == follow_cell_path(value, app.cell_path)
              t == TS(keybindings.navigation.right)
          IN  /\ is_at_bottom(t.app) <=> IsLeaf(node)
              /\ IsLeaf(node) => t.app.cell_path = app.cell_path
              /\ node.type = "list" /\ Len(node.vals) > 0 =>
                    t.app = [app EXCEPT !.cell_path = app.cell_path \o <<PMInt(0, FALSE)>>]
              /\ node.type = "record" /\ Len(node.vals) > 0 =>
                    t.app = [app EXCEPT !.cell_path =
                                app.cell_path \o <<PMString(node.cols[1], FALSE)>>]
    /\ prev_mode = "Normal" /\ app.mode = "Bottom" =>
          IsLeaf(follow_cell_path(value, app.cell_path))

\* `right` on the empty list .o.0 entered Bottom
C9_Witness ==
    /\ pc = "loop"
    /\ prev_mode = "Normal"
    /\ app.mode = "Bottom"
    /\ Len(app.cell_path) = 2
    /\ follow_cell_path(value, app.cell_path) = VList(<<>>)

\* C10: in Bottom mode `left` sets the mode to Normal and leaves cell_path
\* unchanged; `up`, `down` and `right` change neither cell_path nor the mode.
C10_BottomKeys ==
    /\ pc = "loop" /\ app.mode = "Bottom" =>
          /\ TS(keybindings.navigation.left) = Done([app EXCEPT !.mode = "Normal"], Continue)
          /\ \A k \in {keybindings.navigation.up, keybindings.navigation.down,
                       keybindings.navigation.right} :
                TS(k) = Done(app, Continue)
    /\ prev_mode = "Bottom" => app.mode \in {"Bottom", "Normal"}

\* `left` left Bottom on the scalar .i, the selection still on it
C10_Witness ==
    /\ pc = "loop"
    /\ prev_mode = "Bottom"
    /\ app.mode = "Normal"
    /\ result = Continue
    /\ app.cell_path = <<PMString("i", FALSE)>>
\* the session is running: run is in its loop
Running == pc \in {"loop", "error"}

\* C11: `left` in Normal mode removes exactly the last path member when
\* cell_path has more than one and changes nothing when it has exactly one; so
\* with a list or record as root, cell_path has at least one member in every
\* state of the running loop.
C11_LeftAtRoot ==
    /\ pc = "loop" /\ app.mode = "Normal" =>
          LET t == TS(keybindings.navigation.left)
          IN  /\ Len(app.cell_path) > 1 =>
                    t = Done([app EXCEPT !.cell_path = Front(app.cell_path)], Continue)
              /\ Len(app.cell_path) = 1 => t = Done(app, Continue)
    /\ Running /\ IsContainer(value) => Len(app.cell_path) >= 1
    /\ IsContainer(value) <=> IsContainer(input)

\* `left` was pressed on the top-level selection .r and it stayed there
C11_Witness ==
    /\ pc = "loop"
    /\ app.mode = "Normal"
    /\ prev_mode = "Normal"
    /\ result = Continue
    /\ app.cell_path = <<PMString("r", FALSE)>>
    /\ TS(keybindings.navigation.left).app = app
\* every cell-path of tree v, the empty one included
RECURSIVE AllPaths(_)
AllPaths(v) ==
    {<<>>} \cup
    (IF IsContainer(v)
     THEN UNION {{<<Selector(v, i)>> \o q : q \in AllPaths(v.vals[i])} : i \in 1..Len(v.vals)}
     ELSE {})

IsPrefix(q, p) == Len(q) <= Len(p) /\ SubSeq(p, 1, Len(q)) = q

\* C12: a transition that yields Edit(value) comes from the editor's commit in
\* Insert mode; run replaces the tree by mutate(tree, cell_path, value), after
\* which cell_path resolves to the committed string, every node off the path
\* is as before (the ancestors keep type, keys and size), cell_path is
\* unchanged and the mode is Normal.
C12_EditCommit ==
    /\ pc = "loop" =>
          \A k \in Keys :
              LET t == TS(k)
                  new == run_value(t, value)
              IN  t.result.kind = "Edit" =>
                      /\ app.mode = "Insert"
                      /\ t.result.val = VString(app.editor.buffer)
                      /\ t.app.mode = "Normal"
                      /\ t.app.cell_path = app.cell_path
                      /\ follow_cell_path(new, app.cell_path) = t.result.val
                      /\ AllPaths(new) = AllPaths(value)
                      /\ \A q \in AllPaths(value) :
                            IF IsPrefix(q, app.cell_path)
                            THEN q # app.cell_path =>
                                    /\ follow_cell_path(new, q).type = follow_cell_path(value, q).type
                                    /\ follow_cell_path(new, q).cols = follow_cell_path(value, q).cols
                            ELSE follow_cell_path(new, q) = follow_cell_path(value, q)
    /\ pc = "loop" /\ app.mode = "Insert" => TS("Enter").result.kind = "Edit"
    /\ result.kind = "Edit" =>
          /\ pc = "loop"
          /\ prev_mode = "Insert"
          /\ app.mode = "Normal"
          /\ follow_cell_path(value, app.cell_path) = result.val

\* an edit of the string .l.0 was committed and changed the tree
C12_Witness ==
    /\ pc = "loop"
    /\ result.kind = "Edit"
    /\ Len(app.cell_path) = 2
    /\ value # input
    /\ follow_cell_path(value, app.cell_path) = VString(app.editor.buffer)
    /\ typed = 1
\* C13: the key read after an Error result is not passed to transition_state:
\* whichever key it is, mode, cell_path, editor and tree stay as they are and
\* the session goes on.
C13_ErrorSwallowsKey ==
    [][pc = "error" => pc' = "loop" /\ UNCHANGED <<input, value, app, prev_mode, result, output>>]_vars

\* the error shown for a record was dismissed and the loop reads keys again
C13_Witness ==
    /\ pc = "loop"
    /\ result.kind = "Error"
    /\ app.mode = "Normal"
    /\ follow_cell_path(value, app.cell_path).type = "record"
\* C14: run leaves its loop only on a Quit or a Return result: on Quit it
\* returns nothing, on Return(v) exactly v; no value exists before the end and
\* nothing happens after it; Continue, Edit and Error keep the session going.
C14_SessionEnd ==
    /\ pc \in {"loop", "error", "done"}
    /\ pc = "done" <=> result.kind \in {"Quit", "Return"}
    /\ result.kind = "Quit" => output = VNothing
    /\ result.kind = "Return" => output = result.val
    /\ pc # "done" => output = VNothing
    /\ pc = "done" => ~ENABLED Next
    /\ result.kind \in {"Continue", "Edit"} => pc = "loop"
    /\ result.kind = "Error" => pc \in {"error", "loop"}
    /\ pc = "loop" =>
          \A k \in Keys :
              /\ run_pc(TS(k)) = "done" <=> TS(k).result.kind \in {"Quit", "Return"}
              /\ TS(k).result.kind \in {"Quit", "Continue", "Return", "Edit", "Error"}

\* after a committed edit, the session ended by returning the cell-path as a value
C14_Witness ==
    /\ pc = "done"
    /\ result.kind = "Return"
    /\ output = VCellPath(app.cell_path)
    /\ value # input
\* C15 as stated: in every reachable state, the mode is Bottom iff cell_path
\* resolves to a scalar or an empty container.
C15_Original == app.mode = "Bottom" <=> IsLeaf(follow_cell_path(value, app.cell_path))

\* C15, amended: in every reachable state, if the mode is Bottom then cell_path
\* resolves, and to a scalar or an empty container.  (Not conversely: such a
\* node is also selected in Normal, Peeking and Insert mode.)
C15_BottomIsLeaf ==
    app.mode = "Bottom" =>
        /\ follow_cell_path(value, app.cell_path) # VError
        /\ IsLeaf(follow_cell_path(value, app.cell_path))

\* Bottom on the scalar .s
C15_Witness ==
    /\ pc = "loop"
    /\ app.mode = "Bottom"
    /\ app.cell_path = <<PMString("s", FALSE)>>
    /\ follow_cell_path(value, app.cell_path) = VInt(5)
\* every member of the path selects an existing child, from v down
RECURSIVE Resolvable(_, _)
Resolvable(v, members) ==
    \/ Len(members) = 0
    \/ LET pos == SiblingPosition(v, Head(members))
       IN  pos > 0 /\ Resolvable(v.vals[pos], Tail(members))

\* the path without a last member marked optional
Required(p) == IF Len(p) > 0 /\ p[Len(p)].optional THEN Front(p) ELSE p

\* C16: in every reachable state, every member of cell_path, except possibly a
\* last one marked optional, resolves against the current tree.
C16_PathValid == Resolvable(value, Required(app.cell_path))

\* three levels down, on the string .n.0.k, after an edit of it was committed
C16_Witness ==
    /\ pc = "loop"
    /\ prev_mode = "Insert"
    /\ result.kind = "Edit"
    /\ Len(app.cell_path) = 3
    /\ value # input
\* the mode changes one key may make
ModeChanges ==
    {<<"Normal", "Insert">>, <<"Insert", "Normal">>,
     <<"Normal", "Peeking">>, <<"Peeking", "Normal">>,
     <<"Normal", "Bottom">>, <<"Bottom", "Normal">>}

\* C17: one key changes the mode only Normal->Insert, Insert->Normal,
\* Normal->Peeking, Peeking->Normal, Normal->Bottom (the `right` key) or
\* Bottom->Normal (the `left` key): Bottom is entered from Normal only and
\* left to Normal only, and Insert and Peeking never follow one another.
C17_ModeChanges ==
    /\ pc = "loop" =>
          \A k \in Keys :
              LET to == TS(k).app.mode
              IN  to # app.mode =>
                      /\ <<app.mode, to>> \in ModeChanges
                      /\ to = "Bottom" => k = keybindings.navigation.right
                      /\ app.mode = "Bottom" => k = keybindings.navigation.left
    /\ prev_mode # app.mode => <<prev_mode, app.mode>> \in ModeChanges
    /\ app.mode \in Mode

\* Peeking was left for Normal, in a session that had been in Insert before
C17_Witness ==
    /\ pc = "loop"
    /\ prev_mode = "Peeking"
    /\ app.mode = "Normal"
    /\ typed = 1
NavigationKeys ==
    {keybindings.navigation.up, keybindings.navigation.down,
     keybindings.navigation.left, keybindings.navigation.right}

\* C18: the four navigation keys are total.  On every tree (a scalar root, an
\* empty list or record as root, empty containers further down) and in every
\* reachable cell_path and mode they yield Continue; every path they resolve
\* resolves, and holds no member marked optional.
C18_NavigationTotal ==
    pc = "loop" =>
        \A k \in NavigationKeys :
            /\ TS(k).result = Continue
            /\ \A q \in navigation_resolves(k, app) :
                  /\ Resolvable(value, q)
                  /\ \A i \in 1..Len(q) : ~q[i].optional

\* `right` on the placeholder of an empty record as root entered Bottom
C18_Witness ==
    /\ pc = "loop"
    /\ input = VRecord(<<>>, <<>>)
    /\ prev_mode = "Normal"
    /\ app.mode = "Bottom"
    /\ app.cell_path = <<PMString("", TRUE)>>
\* C19: in Insert mode the normal key returns to Normal with Continue and the
\* edit is discarded.  No key read in Insert mode changes cell_path, and none
\* but a commit changes the tree, so tree and cell_path are those Insert was
\* entered with: cell_path still resolves to the String the editor was opened on.
C19_InsertCancel ==
    /\ pc = "loop" /\ app.mode = "Insert" =>
          /\ TS(keybindings.normal) = Done([app EXCEPT !.mode = "Normal"], Continue)
          /\ run_value(TS(keybindings.normal), value) = value
          /\ \A k \in Keys :
                /\ TS(k).app.cell_path = app.cell_path
                /\ TS(k).result.kind # "Edit" => run_value(TS(k), value) = value
                /\ TS(k).app.mode = "Insert" => TS(k).result = Continue
    /\ app.mode = "Insert" => follow_cell_path(value, app.cell_path).type = "string"

\* the editor was closed with the normal key on a buffer that differs from the
\* string in the tree, and the tree is still the initial one
C19_Witness ==
    /\ pc = "loop"
    /\ prev_mode = "Insert"
    /\ app.mode = "Normal"
    /\ result = Continue
    /\ typed = 1
    /\ value = input
    /\ follow_cell_path(value, app.cell_path) # VString(app.editor.buffer)
PeekingKeys ==
    {keybindings.peeking.all, keybindings.peeking.view,
     keybindings.peeking.under, keybindings.peeking.cell_path}

BoundKeys ==
    {keybindings.quit, keybindings.insert, keybindings.normal, keybindings.peek}
        \cup NavigationKeys \cup PeekingKeys

\* key k matches no dispatch rule in mode m
NoRule(k, m) ==
    \/ k = keybindings.normal /\ m \in {"Normal", "Bottom"}
    \/ k = keybindings.insert /\ m \in {"Bottom", "Peeking"}
    \/ k \in NavigationKeys /\ m = "Peeking"
    \/ k \in NavigationKeys \ {keybindings.navigation.left} /\ m = "Bottom"
    \/ k = keybindings.peek /\ m = "Peeking"
    \/ k \in PeekingKeys /\ m \in {"Normal", "Bottom"}
    \/ k \notin BoundKeys /\ m # "Insert"

\* C20: a key that matches no dispatch rule for the mode yields Continue and
\* leaves the app and the tree as they are; the peeking sub-keys in Insert
\* mode go to the editor, which leaves mode, cell_path and tree as they are.
C20_IgnoredKeys ==
    pc = "loop" =>
        \A k \in Keys :
            /\ NoRule(k, app.mode) =>
                  /\ TS(k) = Done(app, Continue)
                  /\ run_value(TS(k), value) = value
            /\ k \in PeekingKeys /\ app.mode = "Insert" =>
                  /\ TS(k).result = Continue
                  /\ TS(k).app.mode = app.mode
                  /\ TS(k).app.cell_path = app.cell_path
                  /\ run_value(TS(k), value) = value

\* a key without a rule was read in Peeking mode, and the mode is still Peeking
C20_Witness ==
    /\ pc = "loop"
    /\ prev_mode = "Peeking"
    /\ app.mode = "Peeking"
    /\ result = Continue
\* the app a session starts with, by the kind of the root of the tree
InitialApp ==
    /\ app.mode = "Normal"
    /\ app.editor = EditorDefault
    /\ input.type = "list" =>
          /\ Len(app.cell_path) = 1
          /\ app.cell_path[1].kind = "Int"
          /\ app.cell_path[1].ival = 0
          /\ app.cell_path[1].optional <=> (Len(input.vals) = 0)
    /\ input.type = "record" =>
          /\ Len(app.cell_path) = 1
          /\ app.cell_path[1].kind = "String"
          /\ Len(input.cols) > 0 => app.cell_path[1].sval = input.cols[1]
          /\ app.cell_path[1].optional <=> (Len(input.cols) = 0)
    /\ input.type \notin {"list", "record"} => app.cell_path = <<>>

\* C21: the state a session starts in has mode Normal and a cell_path of
\* [Index(0)] for a list root, [Key(first key)] for a record root and no member
\* for a scalar root, the member being optional exactly when the root is
\* empty; the app is built from the tree once, which is the initial tree for
\* the whole session.
C21_InitialApp == InitialApp /\ value = input /\ [][input' = input]_vars

\* a session on the empty list starts on the optional member 0
C21_Witness ==
    /\ input = VList(<<>>)
    /\ value = input
    /\ app = [AppDefault EXCEPT !.cell_path = <<PMInt(0, TRUE)>>]
    /\ pc = "loop"
    /\ result = Continue
\* v and w have the same resolvable cell-paths and the same type at each
SameShape(v, w) ==
    /\ AllPaths(v) = AllPaths(w)
    /\ \A q \in AllPaths(v) : follow_cell_path(v, q).type = follow_cell_path(w, q).type

\* C22: only a transition whose result is Edit changes the tree; one whose
\* result is Continue, Error, Quit or Return, and the key that dismisses an
\* error, leave it identical; and the tree of every reachable state has the
\* cell-paths and the node types of the initial tree.
C22_TreeFrame ==
    /\ [](SameShape(input, value))
    /\ [][/\ value' # value => pc = "loop" /\ result'.kind = "Edit"
          /\ result'.kind \in {"Continue", "Error", "Quit", "Return"} => value' = value]_vars

\* after a committed edit changed the tree, the cursor went down into a cell
C22_Witness ==
    /\ value # input
    /\ SameShape(input, value)
    /\ pc = "loop"
    /\ result = Continue
    /\ prev_mode = "Normal"
    /\ app.mode = "Bottom"
\* the string cell under the cursor
Cell == follow_cell_path(value, app.cell_path)

\* C23: in Insert mode cell_path resolves to a String; the insert key that
\* enters Insert sets the buffer to the current string of that cell with the
\* cursor at its end, whatever an earlier editing session left in the editor.
C23_EditorFresh ==
    /\ app.mode = "Insert" => Cell.type = "string"
    /\ prev_mode = "Normal" /\ app.mode = "Insert" =>
          /\ app.editor.buffer = Cell.str
          /\ app.editor.cursor = Len(Cell.str)
    /\ pc = "loop" /\ app.mode = "Normal" /\ Cell.type = "string" =>
          TS(keybindings.insert) =
              Done([app EXCEPT !.mode = "Insert",
                               !.editor = [buffer |-> Cell.str, cursor |-> Len(Cell.str)]],
                   Continue)

\* Insert was entered again after a session that typed a character was
\* cancelled: the buffer is the cell's string, not what that session left
C23_Witness ==
    /\ pc = "loop"
    /\ prev_mode = "Normal"
    /\ app.mode = "Insert"
    /\ typed = 1
    /\ value = input
    /\ app.editor.buffer = Cell.str
    /\ Len(Cell.str) > 0
\* the app after the normal key, when the mode is Insert
Cancelled == TS(keybindings.normal).app

\* C24: every reachable state of the main loop can end the session: a key
\* dismisses an error, the normal key leaves Insert for Normal with Continue,
\* and the quit key in any mode but Insert ends run; the loop never stops in
\* another way and is never without a next step.
C24_CanQuit ==
    /\ pc \in {"loop", "error", "done"}
    /\ Running => ENABLED Next
    /\ pc = "error" =>
          /\ app.mode # "Insert"
          /\ ENABLED (DismissError /\ pc' = "loop" /\ app' = app)
    /\ pc = "loop" /\ app.mode = "Insert" =>
          /\ TS(keybindings.normal).result = Continue
          /\ Cancelled.mode = "Normal"
          /\ run_pc(TS(keybindings.normal)) = "loop"
          /\ run_pc(transition_state(keybindings.quit, Cancelled, value)) = "done"
          /\ ENABLED (ReadKey /\ pc' = "loop" /\ app'.mode = "Normal" /\ value' = value)
    /\ pc = "loop" /\ app.mode # "Insert" =>
          /\ TS(keybindings.quit).result = Quit
          /\ run_pc(TS(keybindings.quit)) = "done"
          /\ ENABLED (ReadKey /\ pc' = "done" /\ result' = Quit)

\* the session was ended by the quit key from the bottom of an edited tree
C24_Witness ==
    /\ pc = "done"
    /\ result = Quit
    /\ prev_mode = "Bottom"
    /\ value # input
    /\ output = VNothing
====
